---- MODULE Spec2Model ----
(***************************************************************************)
(* whorl: a single-worker async executor (src/src/lib.rs, mod runtime).    *)
(*                                                                         *)
(* The state is the Runtime singleton (the task queue and the live-task    *)
(* counter), the Tasks (blocking flag, Arc strong count, the state of the  *)
(* boxed future), the one worker thread started by Runtime::start, and the *)
(* caller threads that use spawn / block_on / wait.  A future is an        *)
(* external collaborator: what it does during a poll (spawn, block_on,     *)
(* clone the Waker, return Ready or Pending, panic) is nondeterministic,   *)
(* poll by poll.                                                           *)
(***************************************************************************)
EXTENDS Integers, Sequences, FiniteSets, TLC

\* ------------------------------------------------------------------ bounds
\* Number of Task::new calls explored.
MaxTasks == 3
\* Number of Waker clones that futures take and keep, over the whole run.
MaxWakers == 1

\* Number of Lazy::get_or_init calls explored.
MaxCalls == 4
\* the clock value the timed scenario is followed up to
MaxNow == 400

Callers == {"c1"}
W == "w"
Threads == Callers \cup {W}
TaskIds == 1..MaxTasks
NoTask == 0

VARIABLES
    queue,      \* Runtime.queue: LinkedList<Arc<Task>>, front first
    tasks,      \* Runtime.tasks: AtomicUsize (a negative value: it wrapped)
    nTasks,     \* number of Task::new calls so far; task ids are 1..nTasks
    block,      \* Task.block
    rc,         \* Arc<Task> strong count; 0 = not constructed or destroyed
    wakers,     \* Waker clones of the task held by futures / other threads
    cloned,     \* number of Waker clones taken so far (bounds the run)
    wpc,        \* worker: "pop" | "polling" | "dead"
    cur,        \* worker: the task popped in this loop turn (NoTask if none)
    held,       \* per thread: task built by Task::new and not yet pushed
    cpc,        \* per caller: "idle" | "wait"
    \* ---- history (ghost) variables, read by the properties only
    ready,      \* the future has returned Ready at least once
    polled,     \* the future has been polled at least once
    panicked,   \* the task whose poll panicked (NoTask if none)
    waitLive,   \* per caller: its latest wait() began with the counter above 0
    waitFor,    \* per waiting caller: tasks built before its wait() began, and
                \* the tasks built since inside a poll of one of those
    enqs,       \* the tasks in the order of their enqueue by spawn / block_on
    behind,     \* per task: never-polled tasks queued as block_on pushed it
    frontSince, \* task of the last push_front since the last pop (NoTask: none)
    pollKids,   \* tasks spawned by the running poll of a blocking task
    owes,       \* per task: pollKids as that same poll block_on'ed it
    frontBy,    \* the thread whose block_on pushed frontSince (W: none, a wake)
    deadAt,     \* nTasks as the worker died (tasks above it were built after)
    unwoken,    \* per task: its latest poll returned Pending and wake() has
                \* not been invoked on it since
    woke,       \* a Waker kept by a future or another thread has been invoked
    due         \* per task the worker re-enqueued after Pending: the tasks
                \* that were in the queue then and were not polled since
                \* (Void: a front insertion or a kept Waker came in between)

\* the state of mod runtime once RUNTIME is initialized
rvars == <<queue, tasks, nTasks, block, rc, wakers, cloned, wpc,
           cur, held, cpc, ready, polled, panicked, waitLive, waitFor, enqs,
           behind, frontSince, pollKids, owes, frontBy, deadAt, unwoken,
           woke, due>>

\* ---- mod lazy: one Lazy<T> (RUNTIME when its factory is setup_runtime)
\* the threads that call get_or_init, and the worker that setup_runtime
\* starts (its loop calls Runtime::get() before every pop_front)
LazyCallers == {"t1", "t2", "t3"}
LW == "lw"
LazyThreads == LazyCallers \cup {LW}
\* the `func` arguments: the runtime's initializer, and any other factory
Factories == {"setup_runtime", "other"}

\* what a MaybeUninit<T> cell or a call's outcome can be: the value made by
\* the k-th invocation of a factory f, or one of four markers
Value(f, k) == [f |-> f, k |-> k]
Uninit == Value("uninit", 0)
Garbage == Value("garbage", 0)
Failed == Value("failed", 0)
NoRes == Value("none", 0)

VARIABLES
    once,       \* Lazy.once: "incomplete" | "running" | "complete" | "poisoned"
    cell,       \* Lazy.cell: Uninit, or the value written
    lpc,        \* per thread: "idle" | "call_once" | "factory" | "closing" |
                \* "read" | "pop"
    arg,        \* per thread: the func of its get_or_init call
    res,        \* per thread: outcome of its latest call (NoRes: none yet)
    invoked,    \* number of factory invocations
    nCalls,     \* number of get_or_init calls made
    lazyLive,   \* the Lazy has not been dropped
    started,    \* number of worker threads started by Runtime::start
    popOn,      \* the Runtime references the worker did a queue operation on
    \* ---- history (ghost) variables
    blocked,    \* threads that were waiting in call_once as the Once finished
    written,    \* the values written to the cell, in order
    destroyed   \* the values dropped by Drop for Lazy, in order

lvars == <<once, cell, lpc, arg, res, invoked, nCalls, lazyLive, started,
           popOn, blocked, written, destroyed>>

\* The timed scenario of library_test: a Sleep per task and the clock it reads
VARIABLES
    clock,      \* SystemTime::now(), in clock units since the first spawn
    sleep,      \* per task: the Sleep its future awaits, [now, ms]
    fpc,        \* per task: where its async block stands: "start" (never
                \* polled), "sleep" (awaiting its Sleep), "after" (the Sleep
                \* returned Ready in the poll in progress, or the block ended)
    dur         \* per task: the ms its async block passes to Sleep::new

tvars == <<clock, sleep, fpc, dur>>

vars == <<rvars, lvars, tvars>>

\* ------------------------------------------------------------ pure helpers
\* (each mutant stands right before the definition it is a faulty variant of)

\* mutant: Task::new forgets to count the task
FetchAddNone(n) == n
\* AtomicUsize::fetch_add(1) in Task::new
FetchAdd(n) == n + 1

\* mutant: Drop for Task forgets to uncount the task
FetchSubNone(n) == n
\* AtomicUsize::fetch_sub(1) in Drop for Task
FetchSub(n) == n - 1

\* mutant: inner_spawn pushes at the front
InnerSpawnFront(q, t) == <<t>> \o q
\* Spawner::inner_spawn: push_back
InnerSpawn(q, t) == Append(q, t)

\* mutant: inner_spawn_blocking pushes at the back
InnerSpawnBlockingBack(q, t) == Append(q, t)
\* Spawner::inner_spawn_blocking: push_front
InnerSpawnBlocking(q, t) == <<t>> \o q

\* mutant: every task is taken for a blocking one
WillBlockAlways(t) == TRUE
\* mutant: the blocking flag is ignored
WillBlockNever(t) == FALSE
\* Task::will_block
WillBlock(t) == block[t]

\* mutant: wake always re-submits at the back
WakeIgnoresFlag(q, t) == InnerSpawn(q, t)
\* Wake for Task: re-submit the same handle, by the blocking flag
Wake(q, t) ==
    IF WillBlock(t) THEN InnerSpawnBlocking(q, t) ELSE InnerSpawn(q, t)

\* mutant: pop_front loses the entries behind the first
PopFrontAll(q) == [task |-> Head(q), rest |-> <<>>]
\* LinkedList::pop_front: the entry removed and what is left
PopFront(q) == [task |-> Head(q), rest |-> Tail(q)]

\* mutant: wait does not look at the counter
WaitSpinsNever(n) == FALSE
\* runtime::wait loop condition: tasks.load() > 0  (a wrapped usize is > 0)
WaitSpins(n) == n # 0

InQueue(t) == \E i \in 1..Len(queue) : queue[i] = t

\* mutant: a second loop pops and polls while a poll is running
WorkerAtPopOrPolling == wpc # "dead"
\* Runtime::start: the one thread's loop is at its pop_front, every earlier
\* statement of the loop body (the poll, the wake) being over
WorkerAtPop == wpc = "pop"

\* mutant: the worker catches the panic and goes on with its loop
AfterPanicGoesOn == "pop"
\* a panic in a poll unwinds the closure of the worker thread, which ends
AfterPanic == "dead"

\* mutant: the worker keeps the queue's MutexGuard while it polls
QueueLockedInPoll == wpc = "polling"
\* queue.lock(): the guard is a temporary of the statement that takes it
\* (pop_front, push_back, push_front), so the Mutex is free between steps
QueueLocked == FALSE

\* ------------------------------------------------------------------- Init
\* The Runtime as setup_runtime builds it: empty queue, counter 0, and the
\* worker at the top of its loop.
RuntimeInit ==
    /\ queue = <<>>
    /\ tasks = 0
    /\ nTasks = 0
    /\ block = [t \in TaskIds |-> FALSE]
    /\ rc = [t \in TaskIds |-> 0]
    /\ wakers = [t \in TaskIds |-> 0]
    /\ cloned = 0
    /\ wpc = "pop"
    /\ cur = NoTask
    /\ held = [th \in Threads |-> NoTask]
    /\ cpc = [c \in Callers |-> "idle"]
    /\ ready = [t \in TaskIds |-> FALSE]
    /\ polled = [t \in TaskIds |-> FALSE]
    /\ panicked = NoTask
    /\ waitLive = [c \in Callers |-> FALSE]
    /\ waitFor = [c \in Callers |-> {}]
    /\ enqs = <<>>
    /\ behind = [t \in TaskIds |-> {}]
    /\ frontSince = NoTask
    /\ pollKids = {}
    /\ owes = [t \in TaskIds |-> {}]
    /\ frontBy = W
    /\ deadAt = 0
    /\ unwoken = [t \in TaskIds |-> FALSE]
    /\ woke = FALSE
    /\ due = [t \in TaskIds |-> {}]

\* Lazy::new(): Once::new() and an uninitialized cell; no thread has called
LazyNew ==
    /\ once = "incomplete"
    /\ cell = Uninit
    /\ lpc = [th \in LazyThreads |-> "idle"]
    /\ arg = [th \in LazyThreads |-> "setup_runtime"]
    /\ res = [th \in LazyThreads |-> NoRes]
    /\ invoked = 0
    /\ nCalls = 0
    /\ lazyLive = TRUE
    /\ started = 0
    /\ popOn = {}
    /\ blocked = {}
    /\ written = <<>>
    /\ destroyed = <<>>

\* RUNTIME after its first get_or_init(setup_runtime) has returned
LazyDone ==
    /\ once = "complete"
    /\ cell = Value("setup_runtime", 1)
    /\ lpc = [th \in LazyThreads |-> "idle"]
    /\ arg = [th \in LazyThreads |-> "setup_runtime"]
    /\ res = [th \in LazyThreads |-> NoRes]
    /\ invoked = 1
    /\ nCalls = 1
    /\ lazyLive = TRUE
    /\ started = 1
    /\ popOn = {}
    /\ blocked = {}
    /\ written = <<Value("setup_runtime", 1)>>
    /\ destroyed = <<>>

\* The state right after setup_runtime: the runtime is built, RUNTIME holds
\* it, and the worker is started.
\* no Sleep exists: the futures of Spec are abstract
TestIdle ==
    /\ clock = 0
    /\ sleep = [t \in TaskIds |-> [now |-> 0, ms |-> 0]]
    /\ fpc = [t \in TaskIds |-> "start"]
    /\ dur = [t \in TaskIds |-> 0]

Init == RuntimeInit /\ LazyDone /\ TestIdle

\* the turn of a waiting task no longer tells anything
Void == {NoTask}
\* the tasks a task re-enqueued behind queue q has to let go first
DueAt(q) ==
    IF woke \/ \E i \in 1..Len(q) : block[q[i]]
    THEN Void
    ELSE {q[i] : i \in 1..Len(q)}
\* a front insertion, by block_on or by wake() on a kept Waker, upsets the
\* turns of the tasks that wait in the queue
VoidQueued == [x \in TaskIds |-> IF InQueue(x) THEN Void ELSE due[x]]
\* task p is dequeued: the waiting tasks have let it go first
Served(p) ==
    [x \in TaskIds |->
        IF x = p THEN {} ELSE IF due[x] = Void THEN Void ELSE due[x] \ {p}]

\* A thread may call spawn / block_on: a caller that is not inside wait(), or
\* the worker while it runs a future's poll (the future calls the API).
CanCall(th) ==
    /\ held[th] = NoTask
    /\ IF th = W THEN wpc = "polling" ELSE cpc[th] = "idle"

\* mutant: Drop for Task runs at every drop of a handle
DropHandlesEach(t, n) ==
    /\ rc' = [rc EXCEPT ![t] = @ - n]
    /\ tasks' = FetchSub(tasks)
\* Dropping n handles of task t; the last one runs Drop for Task.
DropHandles(t, n) ==
    /\ rc' = [rc EXCEPT ![t] = @ - n]
    /\ tasks' = IF rc[t] - n = 0 THEN FetchSub(tasks) ELSE tasks

\* --------------------------------------------------- spawn / block_on
\* Task::new(b, future): count the task, then build the Arc.
TaskNew(th, b) ==
    /\ CanCall(th)
    /\ nTasks < MaxTasks
    /\ nTasks' = nTasks + 1
    /\ tasks' = FetchAdd(tasks)
    /\ block' = [block EXCEPT ![nTasks + 1] = b]
    /\ rc' = [rc EXCEPT ![nTasks + 1] = 1]
    /\ held' = [held EXCEPT ![th] = nTasks + 1]
    /\ waitFor' = [c \in Callers |->
                      IF th = W /\ cur \in waitFor[c]
                      THEN waitFor[c] \cup {nTasks + 1} ELSE waitFor[c]]
    /\ UNCHANGED <<queue, wakers, cloned, wpc, cur, cpc, ready, polled,
                   panicked, waitLive, enqs, behind, frontSince, pollKids,
                   owes>>
    /\ UNCHANGED <<frontBy, deadAt, unwoken, woke, due, lvars, tvars>>

\* runtime::spawn, first half: Spawner::spawn calls Task::new(false, future)
SpawnNew(th) == TaskNew(th, FALSE)

\* runtime::block_on, first half: spawn_blocking calls Task::new(true, future)
BlockOnNew(th) == TaskNew(th, TRUE)

\* runtime::spawn, second half: inner_spawn pushes the new task at the back
SpawnPush(th) ==
    /\ held[th] # NoTask
    /\ ~block[held[th]]
    /\ ~QueueLocked
    /\ queue' = InnerSpawn(queue, held[th])
    /\ held' = [held EXCEPT ![th] = NoTask]
    /\ enqs' = Append(enqs, held[th])
    /\ UNCHANGED behind
    /\ pollKids' = IF th = W /\ block[cur] THEN pollKids \cup {held[th]}
                 ELSE pollKids
    /\ UNCHANGED <<tasks, nTasks, block, rc, wakers, cloned, wpc, cur, cpc,
                   ready, polled, panicked, waitLive, waitFor, frontSince,
                   owes>>
    /\ UNCHANGED <<frontBy, deadAt, unwoken, woke, due, lvars, tvars>>

\* runtime::block_on, second half: inner_spawn_blocking pushes at the front
BlockOnPush(th) ==
    /\ held[th] # NoTask
    /\ block[held[th]]
    /\ ~QueueLocked
    /\ queue' = InnerSpawnBlocking(queue, held[th])
    /\ held' = [held EXCEPT ![th] = NoTask]
    /\ enqs' = Append(enqs, held[th])
    /\ behind' = [behind EXCEPT ![held[th]] =
                      {t \in TaskIds : InQueue(t) /\ ~polled[t]}]
    /\ frontSince' = held[th]
    /\ owes' = [owes EXCEPT ![held[th]] = IF th = W THEN pollKids ELSE {}]
    /\ UNCHANGED <<tasks, nTasks, block, rc, wakers, cloned, wpc, cur, cpc,
                   ready, polled, panicked, waitLive, waitFor, pollKids>>
    /\ frontBy' = th
    /\ due' = VoidQueued
    /\ UNCHANGED <<deadAt, unwoken, woke, lvars, tvars>>

\* ------------------------------------------------------------------ wait
\* runtime::wait entered: Runtime::get(), then the spin loop begins.
WaitBegin(c) ==
    /\ cpc[c] = "idle"
    /\ held[c] = NoTask
    /\ cpc' = [cpc EXCEPT ![c] = "wait"]
    /\ waitLive' = [waitLive EXCEPT ![c] = tasks # 0]
    /\ waitFor' = [waitFor EXCEPT ![c] = 1..nTasks]
    /\ UNCHANGED <<queue, tasks, nTasks, block, rc, wakers, cloned, wpc, cur,
                   held, ready, polled, panicked, enqs, behind, frontSince,
                   pollKids, owes>>
    /\ UNCHANGED <<frontBy, deadAt, unwoken, woke, due, lvars, tvars>>

\* runtime::wait returns: the load saw a counter that is not > 0.
WaitReturn(c) ==
    /\ cpc[c] = "wait"
    /\ ~WaitSpins(tasks)
    /\ cpc' = [cpc EXCEPT ![c] = "idle"]
    /\ waitFor' = [waitFor EXCEPT ![c] = {}]
    /\ UNCHANGED <<queue, tasks, nTasks, block, rc, wakers, cloned, wpc, cur,
                   held, ready, polled, panicked, enqs, behind, frontSince,
                   waitLive, pollKids, owes>>
    /\ UNCHANGED <<frontBy, deadAt, unwoken, woke, due, lvars, tvars>>

\* ---------------------------------------------------------------- worker
\* Runtime::start loop: pop_front gave Some(task); will_block is read and
\* task.poll() begins: Task::poll builds the Waker (one more handle).
Pop ==
    /\ WorkerAtPop
    /\ ~QueueLocked
    /\ queue # <<>>
    /\ LET p == PopFront(queue) IN
        /\ cur' = p.task
        /\ queue' = p.rest
        /\ rc' = [rc EXCEPT ![p.task] = @ + 1]
        /\ UNCHANGED <<enqs, behind>>
        /\ polled' = [polled EXCEPT ![p.task] = TRUE]
    /\ wpc' = "polling"
    /\ frontSince' = NoTask
    /\ pollKids' = {}
    /\ UNCHANGED <<tasks, nTasks, block, wakers, cloned, held, cpc, ready,
                   panicked, waitLive, waitFor, owes>>
    /\ frontBy' = W
    /\ due' = Served(PopFront(queue).task)
    /\ UNCHANGED <<deadAt, unwoken, woke, lvars, tvars>>

\* The poll returns Poll::Ready: the Waker is dropped, neither branch of the
\* loop re-enqueues, and the worker's handle is dropped at the end of the turn.
PollReady ==
    /\ wpc = "polling"
    /\ held[W] = NoTask
    /\ ready' = [ready EXCEPT ![cur] = TRUE]
    /\ DropHandles(cur, 2)
    /\ wpc' = "pop"
    /\ cur' = NoTask
    /\ pollKids' = {}
    /\ UNCHANGED <<queue, nTasks, block, wakers, cloned, held, cpc, polled,
                   panicked, waitLive, waitFor, enqs, behind, frontSince,
                   owes>>
    /\ unwoken' = [unwoken EXCEPT ![cur] = FALSE]
    /\ UNCHANGED <<frontBy, deadAt, woke, due, lvars, tvars>>

\* The poll returns Poll::Pending.  A blocking task is polled again at once
\* (while let Poll::Pending = task.poll()): the Waker is dropped and a new
\* one built.  A non-blocking task is woken: task.wake() moves the worker's
\* handle into the queue.
PollPending ==
    /\ wpc = "polling"
    /\ held[W] = NoTask
    /\ IF WillBlock(cur)
       THEN UNCHANGED <<queue, rc, wpc, cur>>
       ELSE /\ queue' = Wake(queue, cur)
            /\ rc' = [rc EXCEPT ![cur] = @ - 1]
            /\ wpc' = "pop"
            /\ cur' = NoTask
    /\ pollKids' = {}
    /\ UNCHANGED <<frontSince, tasks, nTasks, block, wakers, cloned, held,
                   cpc, ready, polled, panicked, waitLive, waitFor, enqs,
                   behind, owes>>
    /\ unwoken' = [unwoken EXCEPT ![cur] = WillBlock(cur)]
    /\ due' = IF WillBlock(cur) THEN due
              ELSE [due EXCEPT ![cur] = DueAt(queue)]
    /\ UNCHANGED <<frontBy, deadAt, woke, lvars, tvars>>

\* The poll panics: the worker thread unwinds, dropping the Waker and its own
\* handle, and ends; nothing is polled or popped any more.
PollPanic ==
    /\ wpc = "polling"
    /\ held[W] = NoTask
    /\ panicked' = cur
    /\ DropHandles(cur, 2)
    /\ wpc' = AfterPanic
    /\ cur' = NoTask
    /\ pollKids' = {}
    /\ UNCHANGED <<queue, nTasks, block, wakers, cloned, held, cpc, ready,
                   polled, waitLive, waitFor, enqs, behind, frontSince, owes>>
    /\ deadAt' = nTasks
    /\ unwoken' = [unwoken EXCEPT ![cur] = FALSE]
    /\ UNCHANGED <<frontBy, woke, due, lvars, tvars>>

\* ---------------------------------------------------------------- wakers
\* The future clones the Waker of its Context during a poll and keeps the
\* clone (in itself, or handed to another thread).
CloneWaker ==
    /\ wpc = "polling"
    /\ held[W] = NoTask
    /\ cloned < MaxWakers
    /\ cloned' = cloned + 1
    /\ wakers' = [wakers EXCEPT ![cur] = @ + 1]
    /\ rc' = [rc EXCEPT ![cur] = @ + 1]
    /\ UNCHANGED <<queue, tasks, nTasks, block, wpc, cur, held, cpc, ready,
                   polled, panicked, waitLive, waitFor, enqs, behind,
                   frontSince, pollKids, owes>>
    /\ UNCHANGED <<frontBy, deadAt, unwoken, woke, due, lvars, tvars>>

\* Waker::wake() on a kept clone, from any thread: Wake for Task moves the
\* handle into the queue.
WakeByWaker(t) ==
    /\ wakers[t] > 0
    /\ ~QueueLocked
    /\ wakers' = [wakers EXCEPT ![t] = @ - 1]
    /\ queue' = Wake(queue, t)
    /\ frontSince' = IF block[t] THEN t ELSE frontSince
    /\ UNCHANGED <<cloned, tasks, nTasks, block, rc, wpc, cur, held, cpc,
                   ready, polled, panicked, waitLive, waitFor, enqs, behind,
                   pollKids, owes>>
    /\ frontBy' = IF block[t] THEN W ELSE frontBy
    /\ unwoken' = [unwoken EXCEPT ![t] = FALSE]
    /\ woke' = TRUE
    /\ due' = VoidQueued
    /\ UNCHANGED <<deadAt, lvars, tvars>>

\* A kept Waker clone is dropped without being used.
DropWaker(t) ==
    /\ wakers[t] > 0
    /\ wakers' = [wakers EXCEPT ![t] = @ - 1]
    /\ DropHandles(t, 1)
    /\ UNCHANGED <<cloned, queue, nTasks, block, wpc, cur, held, cpc, ready,
                   polled, panicked, waitLive, waitFor, enqs, behind,
                   frontSince, pollKids, owes>>
    /\ UNCHANGED <<frontBy, deadAt, unwoken, woke, due, lvars, tvars>>

\* ------------------------------------------------------------- mod lazy
\* std::sync::Once::call_once, by the state it finds: it runs the closure,
\* waits for the running one, returns at once, or panics (poisoned).
\* mutant: a completed Once runs the closure again
OnceRunsAgain(o) == o \in {"incomplete", "complete"}
OnceRuns(o) == o = "incomplete"
\* mutant: call_once does not wait for the running closure
OncePassesEarly(o) == o \in {"running", "complete"}
OncePasses(o) == o = "complete"
OncePanics(o) == o = "poisoned"
\* mutant: a panic of the closure leaves the Once completed
OnceAfterPanicComplete == "complete"
\* the state a panic of the closure leaves the Once in
OnceAfterPanic == "poisoned"

\* mutant: Drop for Lazy does not look at the Once
IsInitializedAlways(o) == TRUE
\* Lazy::is_initialized: once.is_completed()
IsInitialized(o) == o = "complete"

\* MaybeUninit::assume_init_ref / assume_init: the value written, and
\* undefined behaviour (here: garbage) on a cell that was never written
AssumeInit(c) == IF c = Uninit THEN Garbage ELSE c

\* the threads waiting inside call_once
InCallOnce == {u \in LazyThreads : lpc[u] = "call_once"}

\* Lazy::get_or_init(func) is entered.  The worker enters it through
\* Runtime::get(), once per turn of its loop.
GetOrInit(th, f) ==
    /\ lazyLive
    /\ lpc[th] = "idle"
    /\ nCalls < MaxCalls
    /\ th = LW => started > 0 /\ f = "setup_runtime"
    /\ nCalls' = nCalls + 1
    /\ lpc' = [lpc EXCEPT ![th] = "call_once"]
    /\ arg' = [arg EXCEPT ![th] = f]
    /\ UNCHANGED <<once, cell, res, invoked, lazyLive, started, popOn,
                   blocked, written, destroyed>>
    /\ UNCHANGED <<rvars, tvars>>

\* call_once finds the Once incomplete: this thread runs the closure, which
\* calls func().
CallOnceRun(th) ==
    /\ lpc[th] = "call_once"
    /\ OnceRuns(once)
    /\ once' = "running"
    /\ invoked' = invoked + 1
    /\ lpc' = [lpc EXCEPT ![th] = "factory"]
    /\ UNCHANGED <<cell, arg, res, nCalls, lazyLive, started, popOn, blocked,
                   written, destroyed>>
    /\ UNCHANGED <<rvars, tvars>>

\* setup_runtime, first statement: Runtime::start() spawns the worker thread
RuntimeStart(th) ==
    /\ lpc[th] = "factory"
    /\ arg[th] = "setup_runtime"
    /\ started' = started + 1
    /\ lpc' = [lpc EXCEPT ![th] = "build"]
    /\ UNCHANGED <<once, cell, arg, res, invoked, nCalls, lazyLive, popOn,
                   blocked, written, destroyed>>
    /\ UNCHANGED <<rvars, tvars>>

\* func() returns its value (setup_runtime: the Runtime it built) and the
\* closure writes it into the cell.
FactoryReturn(th) ==
    /\ \/ lpc[th] = "build"
       \/ lpc[th] = "factory" /\ arg[th] # "setup_runtime"
    /\ cell' = Value(arg[th], invoked)
    /\ written' = Append(written, Value(arg[th], invoked))
    /\ lpc' = [lpc EXCEPT ![th] = "closing"]
    /\ UNCHANGED <<once, arg, res, invoked, nCalls, lazyLive, started, popOn,
                   blocked, destroyed>>
    /\ UNCHANGED <<rvars, tvars>>

\* func() panics (setup_runtime: thread::spawn fails): the Once is poisoned
\* and the panic unwinds out of get_or_init.
FactoryPanic(th) ==
    /\ lpc[th] = "factory"
    /\ once' = OnceAfterPanic
    /\ blocked' = InCallOnce
    /\ res' = [res EXCEPT ![th] = Failed]
    /\ lpc' = [lpc EXCEPT ![th] = "idle"]
    /\ UNCHANGED <<cell, arg, invoked, nCalls, lazyLive, started, popOn,
                   written, destroyed>>
    /\ UNCHANGED <<rvars, tvars>>

\* The closure returns: the Once is complete and the waiting threads are let go
CallOnceDone(th) ==
    /\ lpc[th] = "closing"
    /\ once' = "complete"
    /\ blocked' = InCallOnce
    /\ lpc' = [lpc EXCEPT ![th] = "read"]
    /\ UNCHANGED <<cell, arg, res, invoked, nCalls, lazyLive, started, popOn,
                   written, destroyed>>
    /\ UNCHANGED <<rvars, tvars>>

\* call_once finds the Once complete (at once, or after waiting): it returns
CallOncePass(th) ==
    /\ lpc[th] = "call_once"
    /\ OncePasses(once)
    /\ lpc' = [lpc EXCEPT ![th] = "read"]
    /\ UNCHANGED <<once, cell, arg, res, invoked, nCalls, lazyLive, started,
                   popOn, blocked, written, destroyed>>
    /\ UNCHANGED <<rvars, tvars>>

\* call_once finds the Once poisoned (at once, or after waiting): it panics
CallOncePoisoned(th) ==
    /\ lpc[th] = "call_once"
    /\ OncePanics(once)
    /\ res' = [res EXCEPT ![th] = Failed]
    /\ lpc' = [lpc EXCEPT ![th] = "idle"]
    /\ UNCHANGED <<once, cell, arg, invoked, nCalls, lazyLive, started, popOn,
                   blocked, written, destroyed>>
    /\ UNCHANGED <<rvars, tvars>>

\* get_or_init, last expression: assume_init_ref on the cell is returned
CellRead(th) ==
    /\ lpc[th] = "read"
    /\ res' = [res EXCEPT ![th] = AssumeInit(cell)]
    /\ lpc' = [lpc EXCEPT ![th] = IF th = LW THEN "pop" ELSE "idle"]
    /\ UNCHANGED <<once, cell, arg, invoked, nCalls, lazyLive, started, popOn,
                   blocked, written, destroyed>>
    /\ UNCHANGED <<rvars, tvars>>

\* Runtime::start loop: the worker locks the queue of the Runtime it got
WorkerQueueOp ==
    /\ lpc[LW] = "pop"
    /\ popOn' = popOn \cup {res[LW]}
    /\ lpc' = [lpc EXCEPT ![LW] = "idle"]
    /\ UNCHANGED <<once, cell, arg, res, invoked, nCalls, lazyLive, started,
                   blocked, written, destroyed>>
    /\ UNCHANGED <<rvars, tvars>>

\* Drop for Lazy (&mut self: no call is in progress, and no worker refers to
\* it): an initialized value is taken out of the cell and dropped.
LazyDrop ==
    /\ lazyLive
    /\ \A th \in LazyThreads : lpc[th] = "idle"
    /\ started = 0
    /\ lazyLive' = FALSE
    /\ IF IsInitialized(once)
       THEN /\ destroyed' = Append(destroyed, AssumeInit(cell))
            /\ cell' = Uninit
       ELSE UNCHANGED <<destroyed, cell>>
    /\ UNCHANGED <<once, lpc, arg, res, invoked, nCalls, started, popOn,
                   blocked, written>>
    /\ UNCHANGED <<rvars, tvars>>

LazyNext ==
    \/ \E th \in LazyThreads : \E f \in Factories : GetOrInit(th, f)
    \/ \E th \in LazyThreads : CallOnceRun(th)
    \/ \E th \in LazyThreads : RuntimeStart(th)
    \/ \E th \in LazyThreads : FactoryReturn(th)
    \/ \E th \in LazyThreads : FactoryPanic(th)
    \/ \E th \in LazyThreads : CallOnceDone(th)
    \/ \E th \in LazyThreads : CallOncePass(th)
    \/ \E th \in LazyThreads : CallOncePoisoned(th)
    \/ \E th \in LazyThreads : CellRead(th)
    \/ WorkerQueueOp
    \/ LazyDrop

\* A Lazy from Lazy::new() on, with the runtime it may hold left alone
LazyInit == RuntimeInit /\ LazyNew /\ TestIdle

LazySpec == LazyInit /\ [][LazyNext]_vars

\* ------------------------------------------------- mod futures, the test
\* the clock units in one millisecond (Duration::as_millis truncates)
UnitsPerMs == 2
\* how far the clock may have moved on between two looks at it
Steps == {25, 50, 99}
\* the milliseconds the two async blocks sleep for
Durations == {50, 100}
\* the outer spawned future and the future it spawns
TaskA == 1
TaskB == 2

\* Sleep::new(ms): now is the time of creation
SleepNew(ms, t) == [now |-> t, ms |-> ms]
\* SystemTime::elapsed at clock value t
Elapsed(s, t) == t - s.now
\* Duration::as_millis: whole milliseconds
AsMillis(d) == d \div UnitsPerMs
\* mutant: the Sleep is over only when more than ms have passed
SleepPollLate(s, t) ==
    IF AsMillis(Elapsed(s, t)) > s.ms THEN "Ready" ELSE "Pending"
\* mutant: the Sleep does not wait
SleepPollNoWait(s, t) == "Ready"
\* Sleep::poll at clock value t; the Context is not looked at
SleepPoll(s, t) ==
    IF AsMillis(Elapsed(s, t)) >= s.ms THEN "Ready" ELSE "Pending"

TestInit ==
    /\ RuntimeInit /\ LazyDone
    /\ clock = 0
    /\ sleep = [t \in TaskIds |-> [now |-> 0, ms |-> 0]]
    /\ fpc = [t \in TaskIds |-> "start"]
    /\ \E a, b \in Durations :
          dur = [t \in TaskIds |-> IF t = TaskA THEN a ELSE IF t = TaskB THEN b ELSE 0]

\* time passes
T_Tick ==
    /\ nTasks >= 1
    /\ \E d \in Steps :
          /\ clock + d <= MaxNow
          /\ clock' = clock + d
    /\ UNCHANGED <<sleep, fpc, dur, rvars, lvars>>

\* the test thread: runtime::spawn(A), then runtime::wait()
T_SpawnNew(c) == nTasks = 0 /\ SpawnNew(c)
T_SpawnPush(c) == SpawnPush(c)
T_WaitBegin(c) == nTasks >= 1 /\ WaitBegin(c)
T_WaitReturn(c) == WaitReturn(c)

\* the worker takes the next task
T_Pop == Pop

\* first poll of an async block: it reaches Sleep::new(ms)
T_SleepNew ==
    /\ wpc = "polling"
    /\ fpc[cur] = "start"
    /\ sleep' = [sleep EXCEPT ![cur] = SleepNew(dur[cur], clock)]
    /\ fpc' = [fpc EXCEPT ![cur] = "sleep"]
    /\ UNCHANGED <<clock, dur, rvars, lvars>>

\* .await polls the Sleep: Pending, and the async block returns Pending
T_PollPending ==
    /\ wpc = "polling"
    /\ fpc[cur] = "sleep"
    /\ SleepPoll(sleep[cur], clock) = "Pending"
    /\ PollPending

\* .await polls the Sleep: Ready, and the async block goes on
T_SleepReady ==
    /\ wpc = "polling"
    /\ fpc[cur] = "sleep"
    /\ SleepPoll(sleep[cur], clock) = "Ready"
    /\ fpc' = [fpc EXCEPT ![cur] = "after"]
    /\ UNCHANGED <<clock, sleep, dur, rvars, lvars>>

\* A, after its Sleep: runtime::spawn(B)
T_InnerSpawnNew ==
    /\ wpc = "polling"
    /\ cur = TaskA
    /\ fpc[cur] = "after"
    /\ nTasks = 1
    /\ SpawnNew(W)
T_InnerSpawnPush == SpawnPush(W)

\* the async block ends: its poll returns Ready
T_PollReady ==
    /\ wpc = "polling"
    /\ fpc[cur] = "after"
    /\ cur = TaskA => nTasks = 2
    /\ PollReady

TestNext ==
    \/ T_Tick
    \/ \E c \in Callers : T_SpawnNew(c)
    \/ \E c \in Callers : T_SpawnPush(c)
    \/ \E c \in Callers : T_WaitBegin(c)
    \/ \E c \in Callers : T_WaitReturn(c)
    \/ T_Pop
    \/ T_SleepNew
    \/ T_PollPending
    \/ T_SleepReady
    \/ T_InnerSpawnNew
    \/ T_InnerSpawnPush
    \/ T_PollReady

TestSpec == TestInit /\ [][TestNext]_vars

\* ------------------------------------------------------------------ Next
Next ==
    \/ \E th \in Threads : SpawnNew(th)
    \/ \E th \in Threads : BlockOnNew(th)
    \/ \E th \in Threads : SpawnPush(th)
    \/ \E th \in Threads : BlockOnPush(th)
    \/ \E c \in Callers : WaitBegin(c)
    \/ \E c \in Callers : WaitReturn(c)
    \/ Pop
    \/ PollReady
    \/ PollPending
    \/ PollPanic
    \/ CloneWaker
    \/ \E t \in TaskIds : WakeByWaker(t)
    \/ \E t \in TaskIds : DropWaker(t)

Spec == Init /\ [][Next]_vars

\* The thread-progress and future-progress assumptions of the liveness
\* claims: the worker and every thread inside spawn / block_on / wait keep
\* running, and a future that is polled again and again returns Ready.
Fairness ==
    /\ WF_vars(Pop)
    /\ \A t \in TaskIds : SF_vars(PollReady /\ cur = t)
    /\ \A th \in Threads : WF_vars(SpawnPush(th)) /\ WF_vars(BlockOnPush(th))
    /\ \A c \in Callers : WF_vars(WaitReturn(c))

FairSpec == Init /\ [][Next]_vars /\ Fairness

\* ------------------------------------------------- vocabulary of the claims
Built(t) == t \in 1..nTasks
Alive(t) == rc[t] > 0
Destroyed(t) == Built(t) /\ rc[t] = 0
QPos(t) == CHOOSE i \in 1..Len(queue) : queue[i] = t
EnqBefore(a, b) ==
    \E i, j \in 1..Len(enqs) : i < j /\ enqs[i] = a /\ enqs[j] = b
\* this step is the return of c's wait()
WaitReturns(c) == cpc[c] = "wait" /\ cpc'[c] = "idle"
\* this step is the worker's pop_front
Pops == wpc = "pop" /\ wpc' = "polling"

\* ------------------------------------------------------------------- C1
\* C1 as stated: when wait() returns, every task built before the wait began,
\* and every task built since inside a poll of such a task, has returned
\* Ready and is destroyed.
C1_Stated ==
    [][\A c \in Callers : WaitReturns(c) =>
          \A t \in waitFor[c] : Destroyed(t) /\ ready[t]]_vars

\* C1 (amended): when wait() returns, every such task is destroyed, and its
\* future has returned Ready or its poll has panicked.
C1_WaitCoversTasks ==
    [][\A c \in Callers : WaitReturns(c) =>
          \A t \in waitFor[c] :
              Destroyed(t) /\ (ready[t] \/ panicked = t)]_vars

\* a wait() that began with live tasks has returned, all of them Ready
C1_Witness ==
    \E c \in Callers :
        /\ cpc[c] = "idle" /\ waitLive[c]
        /\ nTasks >= 2 /\ \A t \in 1..nTasks : ready[t] /\ Destroyed(t)

\* ------------------------------------------------------------------- C2
AllDone ==
    /\ \A t \in TaskIds : Built(t) ~> Destroyed(t)
    /\ \A c \in Callers : (cpc[c] = "wait") ~> (cpc[c] = "idle")

\* C2 as stated: with fair threads and futures that return Ready after
\* finitely many polls (none panics), every task is eventually destroyed and
\* a pending wait() eventually returns.
C2_Stated == [](panicked = NoTask) => AllDone

\* C2 (amended): the same, provided no future keeps a clone of its Waker.
C2_Liveness == [](panicked = NoTask /\ cloned = 0) => AllDone

\* all tasks of a full run are done and a wait() that had to spin returned
C2_Witness ==
    /\ cloned = 0 /\ panicked = NoTask /\ nTasks = MaxTasks
    /\ \A t \in TaskIds : Destroyed(t)
    /\ \E c \in Callers : cpc[c] = "idle" /\ waitLive[c]

\* ------------------------------------------------------------------- C3
\* C3: in every state the counter equals the number of tasks built and not
\* destroyed (so every step changes it by one per task built and by minus one
\* per task destroyed), and it is never below zero.
C3_CounterIsLiveTasks ==
    /\ tasks = Cardinality({t \in TaskIds : Alive(t)})
    /\ tasks >= 0

\* some tasks are destroyed while others are still alive
C3_Witness ==
    /\ \E t \in TaskIds : Destroyed(t)
    /\ \E t \in TaskIds : Alive(t) /\ polled[t]
    /\ tasks = 2

\* ------------------------------------------------------------------- C4
\* C4: once every task built so far (M of them, M >= 0, spawn and block_on
\* mixed) has returned Ready and its future has been dropped, the counter is
\* exactly 0, and a wait() in progress is free to return.
C4_CounterBackToZero ==
    (\A t \in 1..nTasks : ready[t] /\ Destroyed(t)) =>
        /\ tasks = 0
        /\ \A c \in Callers : cpc[c] = "wait" => ENABLED WaitReturn(c)

\* M = MaxTasks tasks, blocking and non-blocking, all Ready and dropped
C4_Witness ==
    /\ nTasks = MaxTasks
    /\ \A t \in TaskIds : ready[t] /\ Destroyed(t)
    /\ \E t \in TaskIds : block[t]
    /\ \E t \in TaskIds : ~block[t]
    /\ tasks = 0

\* ------------------------------------------------------------------- C5
\* C5: while the worker holds a dequeued blocking task, no step makes it poll
\* another task: it keeps that task until the task's poll has returned Ready
\* (or the worker has died), whatever is pushed in the meantime.
C5_BlockingMonopoly ==
    [][(wpc = "polling" /\ block[cur]) =>
          /\ \A t \in TaskIds : t # cur => polled'[t] = polled[t]
          /\ \/ cur' = cur /\ wpc' = "polling"
             \/ cur' = NoTask /\ wpc' = "pop" /\ ready'[cur]
             \/ cur' = NoTask /\ wpc' = "dead"]_vars

\* a blocking task that has not returned Ready is being polled while a
\* blocking and a non-blocking task, pushed later, wait in the queue
C5_Witness ==
    /\ wpc = "polling" /\ block[cur] /\ ~ready[cur]
    /\ \E a, b \in TaskIds :
          /\ InQueue(a) /\ InQueue(b) /\ block[a] /\ ~block[b]
          /\ EnqBefore(cur, a) /\ EnqBefore(cur, b)
          /\ ~polled[a] /\ ~polled[b]

\* ------------------------------------------------------------------- C6
\* the tasks pushed by block_on and not dequeued yet
AwaitingBlockOn == {t \in TaskIds : block[t] /\ InQueue(t) /\ ~polled[t]}

\* C6 as stated: a task pushed by block_on is the very next task dequeued.
C6_Stated ==
    [][Pops => \A x \in AwaitingBlockOn : cur' = x]_vars

\* C6 (amended): block_on puts its task in front of all that is queued, and
\* the next dequeue takes the task of the latest front insertion (block_on,
\* or wake of a blocking task) made since the dequeue before.
C6_FrontInsertion ==
    [][/\ \A th \in Threads :
             (held[th] # NoTask /\ block[held[th]] /\ held'[th] = NoTask)
                 => queue' = <<held[th]>> \o queue
       /\ (Pops /\ frontSince # NoTask) => cur' = frontSince]_vars

\* a block_on task was dequeued ahead of the tasks that were waiting when it
\* was pushed
C6_Witness ==
    /\ wpc = "polling" /\ block[cur]
    /\ behind[cur] # {}
    /\ \A t \in behind[cur] : InQueue(t) /\ ~polled[t]

\* ------------------------------------------------------------------- C7
\* C7 as stated: of two block_on tasks, the one enqueued second is not polled
\* before the one enqueued first has returned Ready.
C7_Stated ==
    \A x1, x2 \in TaskIds :
        (block[x1] /\ block[x2] /\ EnqBefore(x1, x2) /\ polled[x2]) => ready[x1]

\* C7 (amended): the two are never interleaved.  When x1 was already dequeued
\* as x2 was enqueued, x2 is not polled before x1 has returned Ready; when x1
\* was still waiting in the queue, x2 was put in front of it and x1 is not
\* polled before x2 has returned Ready.
C7_BlockOnOrder ==
    \A x1, x2 \in TaskIds :
        (block[x1] /\ block[x2] /\ EnqBefore(x1, x2)) =>
            IF x1 \in behind[x2]
            THEN polled[x1] => ready[x2]
            ELSE polled[x2] => ready[x1]

\* both orders have happened
C7_Witness ==
    \E x1, x2, x3 \in TaskIds :
        /\ block[x1] /\ block[x2] /\ block[x3]
        /\ EnqBefore(x1, x2) /\ EnqBefore(x2, x3)
        /\ x1 \in behind[x2] /\ polled[x1] /\ ready[x2]
        /\ x2 \notin behind[x3] /\ polled[x3] /\ ready[x2]

\* ------------------------------------------------------------------- C8
\* C8: a non-blocking task enqueued after a block_on task was enqueued gets
\* its first poll only after the block_on task has returned Ready.
C8_SpawnAfterBlockOn ==
    \A x, y \in TaskIds :
        (block[x] /\ ~block[y] /\ EnqBefore(x, y) /\ polled[y]) => ready[x]

\* on an idle runtime block_on(X) and then spawn(Y) were enqueued; X has
\* returned Ready and Y has been polled
C8_Witness ==
    /\ Len(enqs) >= 2
    /\ block[enqs[1]] /\ ~block[enqs[2]]
    /\ ready[enqs[1]] /\ polled[enqs[2]]

\* ------------------------------------------------------------------- C9
\* C9: when one poll of a blocking task spawns non-blocking tasks and then
\* calls block_on(inner), none of those tasks is polled before inner has
\* returned Ready.
C9_InnerBlockOnFirst ==
    \A i \in TaskIds : \A s \in owes[i] : polled[s] => ready[i]

\* such an inner task has returned Ready and a task spawned before it in the
\* same poll has then been polled
C9_Witness ==
    \E i \in TaskIds : \E s \in owes[i] :
        block[i] /\ ~block[s] /\ ready[i] /\ polled[s]

\* ------------------------------------------------------------------ C10
\* C10: spawn appends at the back, and non-blocking tasks are first dequeued
\* in the order of their enqueue: of two non-blocking tasks, the one enqueued
\* later is behind the other while both wait for their first poll, and is
\* not polled before the other.
C10_SpawnFifo ==
    \A t1, t2 \in TaskIds :
        (~block[t1] /\ ~block[t2] /\ EnqBefore(t1, t2)) =>
            /\ polled[t2] => polled[t1]
            /\ (InQueue(t1) /\ InQueue(t2) /\ ~polled[t1] /\ ~polled[t2])
                   => QPos(t1) < QPos(t2)

\* two non-blocking tasks waited together and the earlier one was dequeued
C10_Witness ==
    \E t1, t2 \in TaskIds :
        /\ ~block[t1] /\ ~block[t2] /\ EnqBefore(t1, t2)
        /\ polled[t1] /\ ~polled[t2] /\ InQueue(t2) /\ cur = t1

\* ------------------------------------------------------------------ C11
\* C11: a thread that has built its task in spawn / block_on can always go
\* on to the queue insertion, whatever the worker is doing, and the call is
\* over with that one insertion: the queue is one entry longer, no task has
\* been polled or completed by the step, and the thread is free again.
C11_CallReturnsAtOnce ==
    [][\A th \in Threads :
          /\ held[th] # NoTask => ENABLED (SpawnPush(th) \/ BlockOnPush(th))
          /\ (held[th] # NoTask /\ held'[th] = NoTask) =>
                /\ Len(queue') = Len(queue) + 1
                /\ polled' = polled /\ ready' = ready /\ rc' = rc
                /\ wpc' = wpc /\ cpc' = cpc]_vars

\* a caller is back from block_on(x) with x still waiting in the queue, while
\* the worker is kept by another blocking task that has not returned Ready
C11_Witness ==
    \E x \in TaskIds :
        /\ frontSince = x /\ frontBy \in Callers /\ block[x]
        /\ held[frontBy] = NoTask /\ cpc[frontBy] = "idle"
        /\ InQueue(x) /\ ~polled[x] /\ ~ready[x]
        /\ wpc = "polling" /\ cur # x /\ block[cur] /\ ~ready[cur]
        /\ EnqBefore(cur, x)

\* ------------------------------------------------------------------ C12
\* a get_or_init call of thread th has returned a reference
Returned(th) == res[th] # NoRes /\ res[th] # Failed

\* C12: over all get_or_init calls, concurrent or later, with whatever
\* factories, the factory is invoked at most once and one value at most is
\* written; once a call has returned, the factory has been invoked exactly
\* once, and every reference returned is that one stored value.
C12_FactoryOnce ==
    /\ invoked <= 1
    /\ Len(written) <= 1
    /\ \A th \in LazyThreads :
          Returned(th) =>
              /\ invoked = 1 /\ Len(written) = 1
              /\ res[th] = written[1]
              /\ lazyLive => cell = written[1]

\* K = 3 threads called concurrently (two waited for the third), a call
\* made later passed another factory, and all got the one stored value
C12_Witness ==
    /\ Cardinality(blocked) >= 2
    /\ nCalls = MaxCalls
    /\ Len(written) = 1 /\ invoked = 1
    /\ \A th \in LazyCallers :
          lpc[th] = "idle" /\ res[th] = written[1]
    /\ \E th \in LazyCallers : arg[th] # written[1].f

\* ------------------------------------------------------------------ C13
\* the threads inside the closure of call_once
Initializers == {u \in LazyThreads : lpc[u] \in {"factory", "build", "closing"}}

\* C13: a thread is past call_once (about to read the cell, or returned) only
\* when the one factory invocation is over and its value is in the cell;
\* while the initialization runs, one thread is in it and every other thread
\* that has arrived is still inside call_once.
C13_NoEarlyReturn ==
    /\ \A th \in LazyThreads :
          (lpc[th] \in {"read", "pop"} \/ Returned(th)) =>
              once = "complete" /\ Len(written) = 1
    /\ \A th \in LazyThreads : lpc[th] = "read" => cell = written[1]
    /\ once = "running" =>
          /\ Cardinality(Initializers) = 1
          /\ \A th \in LazyThreads \ Initializers :
                lpc[th] \in {"idle", "call_once"} /\ ~Returned(th)

\* two threads that waited in call_once while the factory ran have returned
\* the stored value after it finished
C13_Witness ==
    /\ once = "complete"
    /\ Cardinality(blocked) >= 2
    /\ \A th \in blocked : lpc[th] = "idle" /\ res[th] = written[1]

\* ------------------------------------------------------------------ C14
\* C14: a call fails exactly when the factory has panicked, and from then on
\* the Lazy is poisoned: the factory was invoked that once and is not
\* invoked again, nothing was written, no call has returned or will get past
\* call_once (the threads that were waiting are still inside it or have
\* failed), and the uninitialized cell is never read.
C14_Poisoned ==
    /\ (\E th \in LazyThreads : res[th] = Failed) <=> once = "poisoned"
    /\ once = "poisoned" =>
          /\ invoked = 1 /\ written = <<>> /\ cell = Uninit
          /\ \A th \in LazyThreads :
                /\ ~Returned(th)
                /\ lpc[th] \in {"idle", "call_once"}
                /\ th \in blocked => lpc[th] = "call_once" \/ res[th] = Failed
    /\ \A th \in LazyThreads :
          /\ lpc[th] \in {"read", "pop"} => cell # Uninit
          /\ res[th] # Garbage

\* the factory panicked while two threads waited: the call that ran it, the
\* two waiting calls and a call made later have all failed
C14_Witness ==
    /\ once = "poisoned"
    /\ Cardinality(blocked) = 2
    /\ nCalls = MaxCalls
    /\ \A th \in LazyCallers : lpc[th] = "idle" /\ res[th] = Failed

\* ------------------------------------------------------------------ C15
\* C15: nothing is destroyed while the Lazy lives; once it is dropped, the
\* value stored by a completed initialization has been destroyed exactly
\* once and the cell is empty, and nothing at all has been destroyed if
\* get_or_init was never called or the factory panicked.
C15_DropOnce ==
    /\ lazyLive => destroyed = <<>>
    /\ ~lazyLive =>
          /\ cell = Uninit
          /\ IF once = "complete"
             THEN Len(written) = 1 /\ destroyed = written
             ELSE written = <<>> /\ destroyed = <<>>

\* a Lazy whose value three threads had got has been dropped, and its value
\* with it
C15_Witness ==
    /\ ~lazyLive
    /\ Len(written) = 1 /\ destroyed = written
    /\ \A th \in LazyCallers : res[th] = written[1]

KeptIn(q, r) ==
    \E i \in 0..(Len(r) - Len(q)) : SubSeq(r, i + 1, i + Len(q)) = q

\* C17: once a poll has panicked the worker is dead and stays dead: no step
\* polls or completes a task, and no step takes an entry out of the queue.
\* A caller can still call spawn and block_on, each a counter increment and
\* one insertion; and wait() cannot return while a task is alive.
C17_PanicStopsWorker ==
    [][panicked # NoTask =>
          /\ wpc = "dead" /\ wpc' = "dead" /\ cur' = NoTask
          /\ polled' = polled /\ ready' = ready /\ panicked' = panicked
          /\ KeptIn(queue, queue')
          /\ \A c \in Callers :
                /\ (CanCall(c) /\ nTasks < MaxTasks) =>
                      ENABLED SpawnNew(c) /\ ENABLED BlockOnNew(c)
                /\ held[c] # NoTask =>
                      ENABLED (SpawnPush(c) \/ BlockOnPush(c))
                /\ (\E t \in TaskIds : Alive(t)) => ~ENABLED WaitReturn(c)
          /\ nTasks' # nTasks => tasks' = tasks + 1 /\ queue' = queue
          /\ Len(queue') \in {Len(queue), Len(queue) + 1}]_vars

\* the worker died leaving a task in the queue; since then a caller has
\* spawned one task and block_on'ed another, both queued and never polled,
\* and is now inside wait()
C17_Witness ==
    /\ panicked # NoTask /\ wpc = "dead"
    /\ \E a, b, d \in TaskIds :
          /\ a <= deadAt /\ InQueue(a)
          /\ b > deadAt /\ d > deadAt /\ ~block[b] /\ block[d]
          /\ InQueue(b) /\ InQueue(d) /\ ~polled[b] /\ ~polled[d]
    /\ \E c \in Callers : cpc[c] = "wait"

\* ------------------------------------------------------------------ C18
\* the number of queue positions that hold task t
Positions(t) == Cardinality({i \in 1..Len(queue) : queue[i] = t})

\* C18 as stated: in every reachable state each task is at one position of
\* the queue at most.
C18_Stated == \A t \in TaskIds : Positions(t) <= 1

\* ------------------------------------------------------------------ C19
\* C19: a poll begins only in a step of the worker, taken when no poll is in
\* progress; a future returns Ready only in a step of the worker, for the
\* task it is polling; and a step of a thread inside spawn, block_on or
\* wait starts, ends or changes no poll.
C19_OnlyWorkerPolls ==
    [][/\ (polled' # polled \/ (cur' # cur /\ cur' # NoTask)) =>
             /\ wpc = "pop" /\ cur = NoTask /\ wpc' = "polling"
             /\ held' = held /\ cpc' = cpc
       /\ ready' # ready =>
             /\ wpc = "polling" /\ cur # NoTask
             /\ \A t \in TaskIds : t # cur => ready'[t] = ready[t]
             /\ held' = held /\ cpc' = cpc
       /\ \A c \in Callers :
             (held'[c] # held[c] \/ cpc'[c] # cpc[c]) =>
                 /\ polled' = polled /\ ready' = ready
                 /\ wpc' = wpc /\ cur' = cur]_vars

\* the worker is in the middle of a poll while a caller, back from a wait(),
\* is inside block_on; an earlier task has been polled to Ready
C19_Witness ==
    /\ wpc = "polling" /\ cur # NoTask
    /\ \E c \in Callers :
          held[c] # NoTask /\ block[held[c]] /\ waitLive[c]
    /\ \E t \in TaskIds : t # cur /\ ready[t]

\* ------------------------------------------------------------------ C20
\* thread th, inside get_or_init, has a step it can take
CanStep(th) ==
    \/ ENABLED CallOnceRun(th) \/ ENABLED RuntimeStart(th)
    \/ ENABLED FactoryReturn(th) \/ ENABLED CallOnceDone(th)
    \/ ENABLED CallOncePass(th) \/ ENABLED CallOncePoisoned(th)
    \/ ENABLED CellRead(th) \/ (th = LW /\ ENABLED WorkerQueueOp)

\* C20: however the first calls race, the initializer runs once at most:
\* one worker thread at most is started and one Runtime at most is stored.
\* The worker does its queue operations only on the Runtime that the
\* completed initialization stored.  No thread is stuck: a thread inside
\* get_or_init can step, or waits for a running initializer that can.
C20_OneRuntimeOneWorker ==
    /\ started <= 1 /\ invoked <= 1 /\ Len(written) <= 1
    /\ lpc[LW] # "idle" => started = 1
    /\ lpc[LW] = "pop" =>
          once = "complete" /\ res[LW] = cell /\ cell.f = "setup_runtime"
    /\ popOn # {} => Len(written) = 1 /\ popOn = {written[1]}
    /\ \A th \in LazyThreads :
          lpc[th] # "idle" =>
              \/ CanStep(th)
              \/ /\ lpc[th] = "call_once" /\ once = "running"
                 /\ \E i \in Initializers : i # th /\ CanStep(i)

\* three threads raced for the first Runtime::get(); the worker, started by
\* the winner, waited inside call_once with the two losers until the
\* Runtime was stored, and has since locked the queue of that Runtime
C20_Witness ==
    /\ started = 1 /\ Len(written) = 1
    /\ LW \in blocked /\ Cardinality(blocked) = 3
    /\ popOn = {written[1]}
    /\ \A th \in LazyCallers :
          arg[th] = "setup_runtime" /\ res[th] = written[1]

C22_NonBlockingTurn ==
    [][(wpc = "polling" /\ ~block[cur]) =>
          /\ ~unwoken[cur]
          /\ wpc' = "polling" =>
                cur' = cur /\ polled' = polled /\ ~unwoken'[cur]
          /\ wpc' = "pop" =>
                /\ cur' = NoTask
                /\ \/ /\ queue' = Append(queue, cur)
                      /\ ready' = ready
                      /\ rc' = [rc EXCEPT ![cur] = @ - 1]
                      /\ tasks' = tasks
                   \/ /\ queue' = queue
                      /\ ready'[cur]
                      /\ rc' = [rc EXCEPT ![cur] = @ - 2]
                      /\ tasks' = IF rc[cur] = 2 THEN tasks - 1 ELSE tasks
          /\ wpc' \in {"polling", "pop", "dead"}]_vars

\* with no Waker ever cloned, a non-blocking task has been polled, returned
\* Suspended and stands again at the back of the queue behind another task,
\* and a non-blocking task that returned Ready is destroyed
C22_Witness ==
    /\ wpc = "pop" /\ cloned = 0 /\ Len(queue) >= 2
    /\ \E t \in TaskIds :
          /\ ~block[t] /\ polled[t] /\ ~ready[t]
          /\ queue[Len(queue)] = t /\ Positions(t) = 1
    /\ \E u \in TaskIds : ~block[u] /\ ready[u] /\ Destroyed(u)

\* ------------------------------------------------------------------ C23
\* C23: a wake() through a kept Waker, and the worker's wake() after
\* Suspended, put the very handle they hold into the queue (the handle count
\* of the task is unchanged by a Waker's wake and one lower, the poll's Waker
\* dropped, by the worker's), build no task and leave the counter alone;
\* the entry goes to the front for a blocking task and to the back for
\* any other.  The blocking flag of a built task never changes.
C23_WakeResubmits ==
    [][/\ \A t \in TaskIds :
             wakers'[t] < wakers[t] /\ rc'[t] = rc[t] =>
                 /\ queue' = IF block[t] THEN <<t>> \o queue
                                         ELSE Append(queue, t)
                 /\ nTasks' = nTasks /\ tasks' = tasks /\ rc' = rc
       /\ (wpc = "polling" /\ wpc' = "pop" /\ queue' # queue) =>
             /\ ~block[cur] /\ queue' = Append(queue, cur)
             /\ nTasks' = nTasks /\ tasks' = tasks
       /\ \A t \in TaskIds : Built(t) => block'[t] = block[t]]_vars

\* a blocking task, woken through its Waker while it is polled, stands at
\* the front of the queue, and a non-blocking task that returned Suspended
\* stands at the back
C23_Witness ==
    /\ wpc = "polling" /\ block[cur] /\ woke
    /\ Len(queue) >= 2 /\ queue[1] = cur
    /\ \E u \in TaskIds :
          ~block[u] /\ polled[u] /\ ~ready[u] /\ queue[Len(queue)] = u

\* ------------------------------------------------------------------ C24
\* C24 as stated: no task is being polled whose previous poll returned
\* Suspended with no wake() on it since.
C24_Stated == wpc = "polling" => ~unwoken[cur]

\* C24 (amended): a task whose latest poll returned Suspended with no wake()
\* on it since is a blocking task that the worker is polling again at once,
\* in the same turn; a non-blocking task is never in that state, so it is
\* polled again only after a wake().
C24_RepollNeedsWake ==
    \A t \in TaskIds :
        unwoken[t] => block[t] /\ cur = t /\ wpc = "polling"

\* a blocking task is polled again after Suspended with no wake(), while a
\* non-blocking task that returned Suspended and was woken waits its turn
C24_Witness ==
    /\ wpc = "polling" /\ block[cur] /\ unwoken[cur] /\ ~woke
    /\ \E u \in TaskIds :
          ~block[u] /\ polled[u] /\ ~ready[u] /\ InQueue(u) /\ ~unwoken[u]

\* ------------------------------------------------------------------ C25
\* C25 as stated: Ready is terminal, the worker never polls a task whose
\* computation has already returned Ready.
C25_Stated == wpc = "polling" => ~ready[cur]

\* ------------------------------------------------------------------ C26
\* the shared handles to task t that exist: its queue entries, the worker's
\* local handle and the Waker of the poll in progress, the kept Waker
\* clones, and the handle a spawn or block_on has built and not yet pushed
Handles(t) ==
    Positions(t) + (IF cur = t THEN 2 ELSE 0) + wakers[t]
        + Cardinality({th \in Threads : held[th] = t})

\* C26: the strong count of a task is the number of its handles, the counter
\* is the number of tasks built that still have a handle (so a task is
\* uncounted when its last handle goes, not earlier and not twice), a task
\* whose count reached 0 never gets a handle again, and a step takes from
\* the counter one for each task whose count it brings to 0, nothing else.
C26_DestroyedAtLastHandle ==
    /\ [](\A t \in 1..nTasks : rc[t] = Handles(t))
    /\ [](tasks = Cardinality({t \in 1..nTasks : Handles(t) > 0}))
    /\ [][\A t \in 1..nTasks : rc[t] = 0 => rc'[t] = 0]_vars
    /\ [][tasks' = tasks + (nTasks' - nTasks)
                    - Cardinality({t \in 1..nTasks :
                                     rc[t] > 0 /\ rc'[t] = 0})]_vars

\* one task returned Ready and was destroyed, another was enqueued twice
\* (it was polled again after Ready) and was destroyed when that poll ended
C26_Witness ==
    /\ tasks = 0 /\ nTasks >= 2
    /\ \E t, u \in 1..nTasks :
          /\ t # u
          /\ ready[u] /\ Destroyed(u) /\ panicked # u
          /\ ready[t] /\ panicked = t /\ Destroyed(t)

\* ------------------------------------------------------------------ C27
\* C27: in the run spawn(A); wait(), where A sleeps dur[A] ms (100 in the
\* scenario) and then spawns B, which sleeps dur[B] ms (50): B's Sleep is
\* created no earlier than A's Sleep is over, B completes after A and no
\* earlier than dur[A] + dur[B] ms (150) after A was created (clock 0), and
\* wait() returns only when both have completed.
C27_EndToEnd ==
    /\ [](fpc[TaskB] # "start" =>
             /\ fpc[TaskA] = "after"
             /\ sleep[TaskB].now >= sleep[TaskA].now + dur[TaskA] * UnitsPerMs)
    /\ [](ready[TaskB] =>
             /\ ready[TaskA]
             /\ clock >= (dur[TaskA] + dur[TaskB]) * UnitsPerMs)
    /\ [][(\E c \in Callers : WaitReturns(c))
              => ready[TaskA] /\ ready[TaskB]]_vars

\* A slept 100 ms, B 50 ms, B completed 150 ms after A was created and
\* wait() has returned
C27_Witness ==
    /\ dur[TaskA] = 100 /\ dur[TaskB] = 50
    /\ ready[TaskA] /\ ready[TaskB]
    /\ clock = 150 * UnitsPerMs
    /\ \E c \in Callers : cpc[c] = "idle" /\ waitLive[c]

\* ------------------------------------------------------------------ C28
\* C28: a poll of a Sleep created at t0 with duration D, at clock value t,
\* returns Ready if and only if t - t0 >= D and Pending otherwise, and it
\* leaves the Wakers alone: none is cloned, none is invoked.
C28_SleepPoll ==
    /\ []((wpc = "polling" /\ fpc[cur] = "sleep") =>
            /\ ENABLED T_SleepReady
                  <=> clock - sleep[cur].now >= sleep[cur].ms * UnitsPerMs
            /\ ENABLED T_PollPending
                  <=> clock - sleep[cur].now < sleep[cur].ms * UnitsPerMs)
    /\ [][(wpc = "polling" /\ fpc[cur] = "sleep") =>
            /\ wakers' = wakers /\ cloned' = cloned /\ woke' = woke
            /\ sleep' = sleep
            /\ fpc'[cur] = "after" =>
                  clock - sleep[cur].now >= sleep[cur].ms * UnitsPerMs
            /\ wpc' = "pop" =>
                  /\ clock - sleep[cur].now < sleep[cur].ms * UnitsPerMs
                  /\ fpc' = fpc /\ queue' = Append(queue, cur)]_vars

\* a Sleep of 50 ms has just returned Ready to a poll made when exactly 50 ms
\* had passed since it was created, at a clock value that is not a whole
\* number of milliseconds
C28_Witness ==
    /\ wpc = "polling" /\ cur = TaskB /\ fpc[cur] = "after" /\ ~ready[cur]
    /\ sleep[cur].ms = 50
    /\ clock - sleep[cur].now = sleep[cur].ms * UnitsPerMs
    /\ clock % UnitsPerMs # 0

\* ------------------------------------------------------------------ C29
\* C29: as long as no kept Waker has been invoked (only the worker wakes),
\* every task is at one queue position at most, the task being polled is
\* not in the queue, and a blocking task is dequeued once in its lifetime:
\* once dequeued it is never in the queue again, the dequeue of a blocking
\* task is its first, and it is not destroyed without having been dequeued.
C29_SchedulerOnlyWakes ==
    /\ [](~woke =>
             /\ \A t \in TaskIds : Positions(t) <= 1
             /\ wpc = "polling" => ~InQueue(cur)
             /\ \A t \in TaskIds :
                   /\ (block[t] /\ polled[t]) => ~InQueue(t)
                   /\ (block[t] /\ Destroyed(t)) => polled[t])
    /\ [][(~woke' /\ Pops /\ block[cur']) => ~polled[cur']]_vars

\* no kept Waker has been invoked (one is kept), a blocking task is polled
\* again after Pending, dequeued once, and a non-blocking task that the
\* worker woke after Pending is back in the queue, once
C29_Witness ==
    /\ ~woke /\ cloned = 1
    /\ wpc = "polling" /\ block[cur] /\ unwoken[cur]
    /\ \E u \in TaskIds :
          ~block[u] /\ polled[u] /\ ~ready[u] /\ Positions(u) = 1

\* ------------------------------------------------------------------ C30
\* C30: a task is counted in the step that builds it, before it is pushed
\* (before spawn / block_on returns and before the queue shows it); a task
\* built inside a poll is counted while its parent is still alive; so the
\* counter is not 0 while a task is queued, being polled or about to be
\* pushed, and a wait() that began after the task was built cannot return
\* while the task is alive.
C30_CountedBeforeVisible ==
    /\ [](\A t \in TaskIds :
             (InQueue(t) \/ cur = t \/ \E th \in Threads : held[th] = t)
                 => Alive(t) /\ tasks >= 1)
    /\ [](held[W] # NoTask =>
             Alive(cur) /\ Alive(held[W]) /\ tasks >= 2)
    /\ [](\A c \in Callers :
             (cpc[c] = "wait" /\ \E t \in waitFor[c] : Alive(t))
                 => ~ENABLED WaitReturn(c))
    /\ [][nTasks' # nTasks =>
             /\ tasks' = tasks + 1
             /\ \A i \in 1..Len(queue') : queue'[i] # nTasks'
             /\ \E th \in Threads : held'[th] = nTasks']_vars
    /\ [][\A th \in Threads :
             (held[th] # NoTask /\ held'[th] = NoTask) =>
                 /\ \E i \in 1..Len(queue') : queue'[i] = held[th]
                 /\ tasks' = tasks /\ tasks >= 1]_vars

\* wait() is spinning while the task being polled, built before the wait
\* began, has just built a child that is counted and not yet in the queue
C30_Witness ==
    \E c \in Callers :
        /\ cpc[c] = "wait" /\ waitLive[c]
        /\ wpc = "polling" /\ cur \in waitFor[c]
        /\ held[W] # NoTask /\ held[W] \in waitFor[c] /\ ~InQueue(held[W])
        /\ tasks = 2

\* ------------------------------------------------------------------ C31
\* C31: while a clone of its Waker is kept (stored in the computation, it
\* is neither invoked nor dropped), a task whose computation has returned
\* Ready is alive, the counter is not 0 and no wait() can return; a step
\* that leaves the clone where it is does not destroy the task and is not
\* the return of a wait().
C31_KeptWakerLeaks ==
    /\ [](\A t \in TaskIds :
             (ready[t] /\ wakers[t] > 0) =>
                 /\ Alive(t) /\ tasks >= 1
                 /\ \A c \in Callers : ~ENABLED WaitReturn(c))
    /\ [][\A t \in TaskIds :
             (ready[t] /\ wakers[t] > 0 /\ wakers'[t] >= wakers[t]) =>
                 /\ rc'[t] > 0 /\ tasks' >= 1
                 /\ \A c \in Callers : ~WaitReturns(c)]_vars

\* the computation returned Ready, the kept clone is the only handle left,
\* every other task is gone and a wait() is still spinning
C31_Witness ==
    \E t \in 1..nTasks : \E c \in Callers :
        /\ ready[t] /\ wakers[t] = 1 /\ rc[t] = 1
        /\ ~InQueue(t) /\ cur # t /\ ~woke
        /\ nTasks >= 2 /\ tasks = 1
        /\ \A u \in 1..nTasks : u # t => ready[u] /\ Destroyed(u)
        /\ cpc[c] = "wait" /\ waitLive[c] /\ t \in waitFor[c]

\* ------------------------------------------------------------------ C32
\* C32: as long as no kept Waker has been invoked, and for a waiting task
\* whose turn saw no blocking task queued: when the worker dequeues a task
\* that it had re-enqueued after Pending, every task that was in the queue
\* at that re-enqueue has been polled since; and every task dequeued while
\* a re-enqueued task waits is one that was in the queue at that
\* re-enqueue and has not been polled since, so each is polled once.
C32_RoundRobin ==
    [][(Pops /\ ~woke) =>
          /\ due[cur'] # Void => due[cur'] = {}
          /\ \A t \in TaskIds :
                (InQueue(t) /\ t # cur' /\ polled[t] /\ ~block[t]
                    /\ due[t] # Void) => cur' \in due[t]]_vars

\* three non-blocking tasks and nothing else: the first is polled for the
\* second time after the other two were polled once each and re-enqueued
C32_Witness ==
    /\ ~woke /\ nTasks = 3 /\ \A t \in TaskIds : ~block[t] /\ ~ready[t]
    /\ wpc = "polling" /\ cur = 1 /\ queue = <<2, 3>>
    /\ polled[2] /\ polled[3]
    /\ due[2] = {} /\ due[3] = {2}

\* ------------------------------------------------------------------ C33
\* C33: every entry of the queue is a task that has been built and is not
\* destroyed, and the distinct tasks in the queue are no more than the
\* live-task counter says.
C33_QueuedAreLive ==
    /\ \A i \in 1..Len(queue) : Built(queue[i]) /\ Alive(queue[i])
    /\ Cardinality({queue[i] : i \in 1..Len(queue)}) <= tasks

\* the queue holds three entries of two tasks, which are all the live
\* tasks, and a third task has been destroyed
C33_Witness ==
    /\ Len(queue) = 3 /\ tasks = 2 /\ wpc = "pop"
    /\ \E t \in TaskIds : Positions(t) = 2
    /\ \E u \in TaskIds : Destroyed(u)

\* ------------------------------------------------------------------ C34
\* C34: a step that changes the queue either adds one entry of a built task
\* at the back or at the front, or removes the first entry, which the worker
\* takes; the other entries stay as they are, in their order.  A step that
\* adds an entry, and a step that builds a task, change no computation's
\* progress, and no step changes the blocking flag of a built task.
C34_OneEndOnly ==
    /\ [][queue' # queue =>
             \/ /\ \E x \in 1..nTasks :
                      queue' = Append(queue, x) \/ queue' = <<x>> \o queue
                /\ ready' = ready /\ polled' = polled /\ block' = block
                /\ cur' = cur \/ (cur' = NoTask /\ queue' = Append(queue, cur))
             \/ /\ queue # <<>> /\ queue' = Tail(queue)
                /\ wpc = "pop" /\ cur' = Head(queue)]_vars
    /\ [][nTasks' # nTasks =>
             queue' = queue /\ ready' = ready /\ polled' = polled]_vars
    /\ [][\A t \in 1..nTasks : block'[t] = block[t]]_vars

\* a blocking task was put in front of two entries: a task not polled yet,
\* and behind it a task the worker popped, polled and put back
C34_Witness ==
    /\ Len(queue) = 3 /\ wpc = "pop"
    /\ block[queue[1]] /\ frontSince = queue[1] /\ ~polled[queue[1]]
    /\ ~block[queue[2]] /\ ~polled[queue[2]]
    /\ ~block[queue[3]] /\ polled[queue[3]] /\ ~ready[queue[3]]

====
